---- MODULE Spec2Model ----
(***************************************************************************)
(* Sliding Window Log rate limiter: the in-memory backend                  *)
(* (src/src/rate_limiter.py, SlidingWindowRateLimiter) and the Redis       *)
(* backend (src/src/redis_limiter.py, RedisRateLimiter with its two Lua    *)
(* scripts).                                                               *)
(*                                                                         *)
(* Time is an integer number of clock ticks; time.time() reads `clock`.    *)
(* The clock never goes backwards.                                         *)
(***************************************************************************)
EXTENDS Integers, Sequences, FiniteSets, TLC

VARIABLES
    default_limit,   \* self.default_limit
    window_seconds,  \* self.window_seconds
    clock,           \* what time.time() returns
    request_logs,    \* SlidingWindowRateLimiter.request_logs: key -> list of timestamps
    locks,           \* SlidingWindowRateLimiter.locks: key -> holder of the key's lock (0: free)
    global_lock,     \* SlidingWindowRateLimiter.global_lock: its holder (0: free)
    pc,              \* per thread: where it is in its call
    frame,           \* per thread: the locals of its call
    calls,           \* number of calls started so far
    admitted,        \* history, per key: the timestamps of the allow calls that returned True
    denied,          \* history, per key: how many allow calls returned False
    limits_used,     \* history, per key: the effective limits of the allow calls made
    was_reset,       \* history, per key: whether reset ran on it
    first_allow,     \* history, per key: the time the first allow call sampled (None: no call yet)
    lin,             \* history: the calls so far run one at a time, each where it samples the time
    redis_data,      \* the Redis server: key -> sorted set, as the set of its members
    redis_expiry,    \* the Redis server: key -> the server time at which the key expires
    rpc,             \* per RedisRateLimiter instance: where it is in its call
    rframe,          \* per RedisRateLimiter instance: the locals of its call
    r_admitted,      \* history, per key: [now, at] of each script run that returned 1
    r_last,          \* history: the last command the Redis server ran
    s_hist,          \* history of a sequential run, per key
    s_last,          \* history of a sequential run: the last call and what it returned
    pairs,           \* two runs compared: the two (user_id, model_id) pairs, <<first, second>>
    run2,            \* two runs compared: the state of the limiter or the server of the second run
    p_last,          \* two runs compared: the last call on the second pair, its result in each run
    built,           \* the limiters constructed so far: a subset of {"local", "redis"}
    script_cache,    \* the Redis server: the scripts its script cache holds
    connected,       \* whether the Redis server answers the client
    l_last           \* history of a limiter's life: the last call and how it ended

localVars == <<request_logs, locks, global_lock, pc, frame, calls>>
histVars == <<admitted, denied, limits_used, was_reset, first_allow, lin>>
confVars == <<default_limit, window_seconds>>
redisVars == <<redis_data, redis_expiry, rpc, rframe, r_admitted, r_last>>
seqVars == <<s_hist, s_last>>
pairVars == <<pairs, run2, p_last>>
lifeVars == <<built, script_cache, connected, l_last>>
vars == <<confVars, clock, localVars, histVars, redisVars, seqVars, pairVars, lifeVars>>

(***************************************************************************)
(* Bounds of the model.                                                    *)
(***************************************************************************)
NumThreads == 2
MaxCalls == 2
MaxTime == 2
MaxLimit == 1
NumInstances == 2
\* stands for the 1000000 of math.random(1000000)
RandomRange == 2

Threads == 1..NumThreads
Instances == 1..NumInstances
Times == 0..MaxTime

\* limit: int = None  -- an optional integer: <<>> is None, <<n>> is n
None == <<>>
Some(n) == <<n>>

Users == {"u1", "u2"}
Models == {"m1"}
\* the single caller of SpecSeq works on one (user_id, model_id) pair
SeqUsers == {"u1"}
\* the limit argument of the calls where several threads or several keys are at work
ThreadLimits == {None} \cup {Some(n) : n \in 0..MaxLimit}
\* the limit argument of the other calls
Limits == {None} \cup {Some(n) : n \in (-1)..(MaxLimit + 1)}

Min(a, b) == IF a <= b THEN a ELSE b
Max(a, b) == IF a >= b THEN a ELSE b

(***************************************************************************)
(* SlidingWindowRateLimiter                                                *)
(***************************************************************************)
_get_key(user_id, model_id) == user_id \o ":" \o model_id

LocalKeys == {_get_key(u, m) : u \in Users, m \in Models}

\* defaultdict(list): a key never touched reads as the empty list
LogOf(logs, key) == IF key \in DOMAIN logs THEN logs[key] ELSE <<>>

Put(f, key, val) == [k \in DOMAIN f \cup {key} |-> IF k = key THEN val ELSE f[k]]

\* a faulty cleanup: >= for >, a timestamp of exactly now - window_seconds is kept
Mut_cleanup_boundary(log, current_time, window) ==
    SelectSeq(log, LAMBDA ts : ts >= current_time - window)

\* a faulty cleanup: the cleaned list is built and not stored
Mut_cleanup_not_stored(log, current_time, window) == log

_cleanup_old_entries(log, current_time, window) ==
    SelectSeq(log, LAMBDA ts : ts > current_time - window)

\* a faulty fallback: an override of 0 is taken for no override (limit or default)
Mut_effective_limit(limit, default) ==
    IF limit # None /\ limit[1] # 0 THEN limit[1] ELSE default

effective_limit(limit, default) ==
    IF limit # None THEN limit[1] ELSE default

\* a faulty check: > for >=, one request more than the limit is admitted
MutOverLimit(count, limit) == count > limit

\* len(self.request_logs[key]) >= effective_limit
OverLimit(count, limit) == count >= limit

\* a faulty remaining figure: not clamped at 0
Mut_requests_remaining(default, count) == default - count

\* max(0, self.default_limit - count)
requests_remaining(default, count) == Max(0, default - count)

NoFrame == [op |-> "none", user_id |-> "", model_id |-> "", limit |-> None,
            key |-> "", effective_limit |-> 0, current_time |-> 0]

\* a faulty allow: the timestamp is recorded before the check, so a denied call too
\* leaves one
MutLocalAllow(logs, key, limit, current_time, window) ==
    LET log == _cleanup_old_entries(LogOf(logs, key), current_time, window)
    IN  [logs |-> Put(logs, key, Append(log, current_time)),
         result |-> ~OverLimit(Len(log), limit)]

\* SlidingWindowRateLimiter.allow, from the cleanup to the return
LocalAllow(logs, key, limit, current_time, window) ==
    LET log == _cleanup_old_entries(LogOf(logs, key), current_time, window)
    IN  IF OverLimit(Len(log), limit)
        THEN [logs |-> Put(logs, key, log), result |-> FALSE]
        ELSE [logs |-> Put(logs, key, Append(log, current_time)), result |-> TRUE]

\* SlidingWindowRateLimiter.get_usage, from the cleanup to the return
LocalGetUsage(logs, key, current_time, window, default) ==
    LET log == _cleanup_old_entries(LogOf(logs, key), current_time, window)
        count == Len(log)
    IN  [logs |-> Put(logs, key, log),
         result |-> [requests_used |-> count,
                     requests_remaining |-> requests_remaining(default, count),
                     window_seconds |-> window]]

\* a faulty reset: the log is left as it is
MutLocalReset(logs, key) == Put(logs, key, LogOf(logs, key))

\* SlidingWindowRateLimiter.reset: self.request_logs[key] = []
LocalReset(logs, key) == Put(logs, key, <<>>)

\* the calls run one at a time: an allow that returned result is run on lin.logs
LinAllow(key, limit, result) ==
    LET a == LocalAllow(lin.logs, key, limit, clock, window_seconds)
    IN  [logs |-> a.logs, ok |-> lin.ok /\ a.result = result]

\* the calls run one at a time: a get_usage that returned result is run on lin.logs
LinGetUsage(key, result) ==
    LET a == LocalGetUsage(lin.logs, key, clock, window_seconds, default_limit)
    IN  [logs |-> a.logs, ok |-> lin.ok /\ a.result = result]

----------------------------------------------------------------------------
(***************************************************************************)
(* The threads of the in-memory backend.                                   *)
(***************************************************************************)

\* a thread enters allow, get_usage or reset: key = self._get_key(user_id, model_id)
Call(t) ==
    /\ pc[t] = "idle"
    /\ calls < MaxCalls
    /\ \E o \in {"allow", "get_usage", "reset"}, u \in Users, m \in Models, l \in ThreadLimits :
         /\ (o # "allow") => l = None
         /\ frame' = [frame EXCEPT ![t] = [NoFrame EXCEPT !.op = o, !.user_id = u,
                          !.model_id = m, !.limit = l, !.key = _get_key(u, m)]]
    /\ pc' = [pc EXCEPT ![t] = "get_lock"]
    /\ calls' = calls + 1
    /\ UNCHANGED <<confVars, clock, request_logs, locks, global_lock, histVars, redisVars, seqVars, pairVars, lifeVars>>

\* _get_lock: with self.global_lock:
GetLockEnter(t) ==
    /\ pc[t] = "get_lock"
    /\ global_lock = 0
    /\ global_lock' = t
    /\ pc' = [pc EXCEPT ![t] = "in_get_lock"]
    /\ UNCHANGED <<confVars, clock, request_logs, locks, frame, calls, histVars, redisVars, seqVars, pairVars, lifeVars>>

\* a faulty _get_lock: the global lock is kept while the thread goes on to the key's lock
MutGetLockReturn(t) ==
    /\ pc[t] = "in_get_lock"
    /\ locks' = IF frame[t].key \in DOMAIN locks THEN locks ELSE Put(locks, frame[t].key, 0)
    /\ frame' = [frame EXCEPT ![t].effective_limit =
                     effective_limit(frame[t].limit, default_limit)]
    /\ pc' = [pc EXCEPT ![t] = "with_lock"]
    /\ UNCHANGED <<confVars, clock, request_logs, global_lock, calls, histVars, redisVars,
                   seqVars, pairVars, lifeVars>>

\* _get_lock: return self.locks[key] (created when absent), leaving the with block;
\* then allow's effective_limit = limit if limit is not None else self.default_limit
GetLockReturn(t) ==
    /\ pc[t] = "in_get_lock"
    /\ locks' = IF frame[t].key \in DOMAIN locks THEN locks ELSE Put(locks, frame[t].key, 0)
    /\ global_lock' = 0
    /\ frame' = [frame EXCEPT ![t].effective_limit =
                     effective_limit(frame[t].limit, default_limit)]
    /\ pc' = [pc EXCEPT ![t] = "with_lock"]
    /\ UNCHANGED <<confVars, clock, request_logs, calls, histVars, redisVars, seqVars, pairVars, lifeVars>>

\* a faulty lock: acquired whether or not it is held
MutLockFree(key) == TRUE

LockFree(key) == locks[key] = 0

\* with lock:
AcquireLock(t) ==
    /\ pc[t] = "with_lock"
    /\ LockFree(frame[t].key)
    /\ locks' = [locks EXCEPT ![frame[t].key] = t]
    /\ pc' = [pc EXCEPT ![t] = frame[t].op \o "_body"]
    /\ UNCHANGED <<confVars, clock, request_logs, global_lock, frame, calls, histVars, redisVars, seqVars, pairVars, lifeVars>>

\* a faulty exit of the with lock: block: the key's lock stays held
MutRelease(t) == locks

\* the exit of the with lock: block
Release(t) == [locks EXCEPT ![frame[t].key] = 0]

\* allow: current_time = time.time(); self._cleanup_old_entries(key, current_time);
\* if len(self.request_logs[key]) >= effective_limit: return False
AllowCheck(t) ==
    /\ pc[t] = "allow_body"
    /\ LET key == frame[t].key
           log == _cleanup_old_entries(LogOf(request_logs, key), clock, window_seconds)
       IN  /\ request_logs' = Put(request_logs, key, log)
           /\ first_allow' = [first_allow EXCEPT ![key] = IF @ = None THEN Some(clock) ELSE @]
           /\ limits_used' = [limits_used EXCEPT ![key] = @ \cup {frame[t].effective_limit}]
           /\ lin' = LinAllow(key, frame[t].effective_limit,
                              ~OverLimit(Len(log), frame[t].effective_limit))
           /\ IF OverLimit(Len(log), frame[t].effective_limit)
              THEN /\ locks' = Release(t)
                   /\ pc' = [pc EXCEPT ![t] = "idle"]
                   /\ frame' = [frame EXCEPT ![t] = NoFrame]
                   /\ denied' = [denied EXCEPT ![key] = @ + 1]
              ELSE /\ pc' = [pc EXCEPT ![t] = "append"]
                   /\ frame' = [frame EXCEPT ![t].current_time = clock]
                   /\ UNCHANGED <<locks, denied>>
    /\ UNCHANGED <<confVars, clock, global_lock, calls, admitted, was_reset, redisVars, seqVars, pairVars, lifeVars>>

\* allow: self.request_logs[key].append(current_time); return True
AllowAppend(t) ==
    /\ pc[t] = "append"
    /\ request_logs' = Put(request_logs, frame[t].key,
           Append(LogOf(request_logs, frame[t].key), frame[t].current_time))
    /\ locks' = Release(t)
    /\ pc' = [pc EXCEPT ![t] = "idle"]
    /\ frame' = [frame EXCEPT ![t] = NoFrame]
    /\ admitted' = [admitted EXCEPT ![frame[t].key] = Append(@, frame[t].current_time)]
    /\ UNCHANGED <<confVars, clock, global_lock, calls, denied, limits_used, was_reset,
                   first_allow, lin, redisVars, seqVars, pairVars, lifeVars>>

\* get_usage: current_time = time.time(); self._cleanup_old_entries(key, current_time);
\* count = len(self.request_logs[key]); return {...}
GetUsageBody(t) ==
    /\ pc[t] = "get_usage_body"
    /\ request_logs' = Put(request_logs, frame[t].key,
           _cleanup_old_entries(LogOf(request_logs, frame[t].key), clock, window_seconds))
    /\ locks' = Release(t)
    /\ pc' = [pc EXCEPT ![t] = "idle"]
    /\ frame' = [frame EXCEPT ![t] = NoFrame]
    /\ lin' = LinGetUsage(frame[t].key,
           LocalGetUsage(request_logs, frame[t].key, clock, window_seconds,
                         default_limit).result)
    /\ UNCHANGED <<confVars, clock, global_lock, calls, admitted, denied, limits_used,
                   was_reset, first_allow, redisVars, seqVars, pairVars, lifeVars>>

\* reset: self.request_logs[key] = []
ResetBody(t) ==
    /\ pc[t] = "reset_body"
    /\ request_logs' = Put(request_logs, frame[t].key, <<>>)
    /\ locks' = Release(t)
    /\ pc' = [pc EXCEPT ![t] = "idle"]
    /\ frame' = [frame EXCEPT ![t] = NoFrame]
    /\ was_reset' = [was_reset EXCEPT ![frame[t].key] = TRUE]
    /\ lin' = [lin EXCEPT !.logs = LocalReset(lin.logs, frame[t].key)]
    /\ UNCHANGED <<confVars, clock, global_lock, calls, admitted, denied, limits_used,
                   first_allow, redisVars, seqVars, pairVars, lifeVars>>

\* time passes
Tick ==
    /\ clock < MaxTime
    /\ clock' = clock + 1
    /\ UNCHANGED <<confVars, localVars, histVars, redisVars, seqVars, pairVars, lifeVars>>

\* fresh: reset ran and no allow since; last_admit, r_last_admit: when the backend last
\* admitted a request; since_reset: the timestamps admitted since the last reset
NoHist == [fresh |-> FALSE, last_admit |-> None, r_last_admit |-> None, since_reset |-> <<>>]

HistInit(keys) ==
    /\ admitted = [k \in keys |-> <<>>]
    /\ denied = [k \in keys |-> 0]
    /\ limits_used = [k \in keys |-> {}]
    /\ was_reset = [k \in keys |-> FALSE]
    /\ first_allow = [k \in keys |-> None]
    /\ lin = [logs |-> <<>>, ok |-> TRUE]
    /\ r_admitted = [k \in keys |-> <<>>]
    /\ r_last = [op |-> "none"]
    /\ s_hist = [k \in keys |-> NoHist]
    /\ s_last = [op |-> "none"]
    /\ p_last = [op |-> "none"]

\* the scripts that RedisRateLimiter.__init__ loads, named as their handles
Scripts == {"rate_limit_sha", "get_usage_sha"}

\* the limiters in backends were constructed, against a Redis server that answers
Built(backends) ==
    /\ built = backends
    /\ script_cache = (IF "redis" \in backends THEN Scripts ELSE {})
    /\ connected = TRUE
    /\ l_last = [op |-> "none"]

\* no thread of the in-memory backend is running
LocalIdle ==
    /\ request_logs = <<>>
    /\ locks = <<>>
    /\ global_lock = 0
    /\ pc = [t \in Threads |-> "idle"]
    /\ frame = [t \in Threads |-> NoFrame]
    /\ calls = 0

\* no second run
NoPairs ==
    /\ pairs = <<>>
    /\ run2 = [request_logs |-> <<>>, locks |-> <<>>]

\* an empty Redis server and no call in flight
RedisIdle ==
    /\ redis_data = <<>>
    /\ redis_expiry = <<>>
    /\ rpc = [i \in Instances |-> "idle"]
    /\ rframe = [i \in Instances |-> NoFrame]

\* SlidingWindowRateLimiter(default_limit, window_seconds)
Init ==
    /\ default_limit \in 1..MaxLimit
    /\ window_seconds = 2
    /\ clock = 0
    /\ Built({"local"})
    /\ LocalIdle
    /\ RedisIdle
    /\ NoPairs
    /\ HistInit(LocalKeys)

Next ==
    \/ Tick
    \/ \E t \in Threads :
         \/ Call(t)
         \/ GetLockEnter(t)
         \/ GetLockReturn(t)
         \/ AcquireLock(t)
         \/ AllowCheck(t)
         \/ AllowAppend(t)
         \/ GetUsageBody(t)
         \/ ResetBody(t)

Spec == Init /\ [][Next]_vars

----------------------------------------------------------------------------
(***************************************************************************)
(* Properties of the in-memory backend under concurrent callers (Spec).    *)
(***************************************************************************)

\* the admitted timestamps of key k that lie in the window (t - window_seconds, t]
InWindow(k, t) ==
    {i \in 1..Len(admitted[k]) : admitted[k][i] > t - window_seconds /\ admitted[k][i] <= t}

\* every allow on k so far had the effective limit L, and k was never reset
FixedLimit(k, L) == ~was_reset[k] /\ limits_used[k] = {L}

\* C1: on a key whose allow calls all had the same limit L and that was never reset,
\* no window of window_seconds consecutive instants holds more than L admitted
\* timestamps, whatever the interleaving of the calling threads.
C1_WindowNeverExceedsLimit ==
    \A k \in LocalKeys : \A L \in 0..MaxLimit :
        FixedLimit(k, L) => \A t \in Times : Cardinality(InWindow(k, t)) <= L

\* a key with limit 1 admitted a second request after the first left the window
C1_Witness ==
    \E k \in LocalKeys : FixedLimit(k, 1) /\ Len(admitted[k]) = 2

\* C2: the allow calls decided so far on a never-reset key, all with limit L and all
\* sampled within one window, returned True exactly min(N, L) times and False
\* N - min(N, L) times, N being their number.
C2_ExactAdmissionCount ==
    \A k \in LocalKeys : \A L \in 0..MaxLimit :
        (/\ FixedLimit(k, L)
         /\ first_allow[k] # None
         /\ clock - first_allow[k][1] < window_seconds)
        => LET N == Len(admitted[k]) + denied[k]
           IN  /\ Len(admitted[k]) = Min(N, L)
               /\ denied[k] = N - Min(N, L)

\* two allow calls with limit 1 in one window: one admitted, one denied
C2_Witness ==
    \E k \in LocalKeys :
        /\ FixedLimit(k, 1)
        /\ clock - first_allow[k][1] < window_seconds
        /\ Len(admitted[k]) = 1
        /\ denied[k] = 1
        /\ \A t \in Threads : pc[t] = "idle"

\* the threads that are inside the with lock: block of a call on key
InBody(key) ==
    {t \in Threads : /\ pc[t] \in {"allow_body", "append", "get_usage_body", "reset_body"}
                     /\ frame[t].key = key}

\* C15: at most one thread at a time is inside the locked body of a call on a key, and
\* that thread holds the key's one lock; every allow and get_usage returned what it
\* returns when the calls are run one at a time, each at the instant it samples the
\* time inside its locked body (an instant between its invocation and its return);
\* and whenever no thread is inside the locked body of a key, the key's list is the
\* list those calls run one at a time leave.
C15_PerKeyLinearizable ==
    /\ \A k \in LocalKeys :
           /\ Cardinality(InBody(k)) <= 1
           /\ \A t \in InBody(k) : k \in DOMAIN locks /\ locks[k] = t
           /\ InBody(k) = {} => LogOf(request_logs, k) = LogOf(lin.logs, k)
    /\ lin.ok

\* a thread is inside the locked body of a key while another waits for the key's lock
C15_Witness ==
    \E t1 \in Threads, t2 \in Threads :
        /\ t1 # t2
        /\ pc[t1] = "append"
        /\ pc[t2] = "with_lock"
        /\ frame[t2].key = frame[t1].key
        /\ frame[t2].op = "get_usage"

\* C16: the global lock is held exactly by a thread that is inside _get_lock, which
\* holds and waits for no per-key lock and can always go on and release it; a thread
\* that holds a per-key lock is inside its locked body and does not hold the global
\* lock; and a thread that waits for the lock of a key can take it as soon as no
\* thread is inside the locked body of that same key, whatever the threads inside the
\* locked bodies of other keys do.
C16_GlobalLockOnlyForLookup ==
    /\ \A t \in Threads : (global_lock = t) <=> (pc[t] = "in_get_lock")
    /\ \A t \in Threads : pc[t] = "in_get_lock" =>
           /\ \A k \in DOMAIN locks : locks[k] # t
           /\ ENABLED GetLockReturn(t)
    /\ \A k \in DOMAIN locks : locks[k] # 0 =>
           /\ locks[k] \in InBody(k)
           /\ global_lock # locks[k]
    /\ \A t \in Threads : (pc[t] = "get_lock" /\ global_lock = 0) => ENABLED GetLockEnter(t)
    /\ \A t \in Threads : (pc[t] = "with_lock" /\ InBody(frame[t].key) = {}) =>
           ENABLED AcquireLock(t)

\* a thread takes the lock of a key while another thread is inside the locked body of
\* another key
C16_Witness ==
    \E t1 \in Threads, t2 \in Threads :
        /\ pc[t1] = "append"
        /\ pc[t2] \in {"allow_body", "get_usage_body", "reset_body"}
        /\ frame[t1].key # frame[t2].key

\* the threads are scheduled fairly: a thread that can take a step takes one, and a
\* thread that waits for a lock gets it if the lock is free again and again
Fairness ==
    \A t \in Threads :
        /\ SF_vars(GetLockEnter(t))
        /\ WF_vars(GetLockReturn(t))
        /\ SF_vars(AcquireLock(t))
        /\ WF_vars(AllowCheck(t))
        /\ WF_vars(AllowAppend(t))
        /\ WF_vars(GetUsageBody(t))
        /\ WF_vars(ResetBody(t))

SpecFair == Spec /\ Fairness

\* the lock of key is held
Held(key) == key \in DOMAIN locks /\ locks[key] # 0

\* C17: under fair scheduling every call that a thread entered returns, and every lock
\* that is held, the global lock or the lock of a key, is released.
C17_EveryCallReturns ==
    /\ \A t \in Threads : (pc[t] # "idle") ~> (pc[t] = "idle")
    /\ (global_lock # 0) ~> (global_lock = 0)
    /\ \A k \in LocalKeys : Held(k) ~> ~Held(k)

\* a denied allow returned, and no lock is held
C17_Witness ==
    /\ \E k \in LocalKeys : denied[k] >= 1 /\ k \in DOMAIN locks /\ locks[k] = 0
    /\ \A t \in Threads : pc[t] = "idle"
    /\ global_lock = 0
    /\ calls = MaxCalls

----------------------------------------------------------------------------
(***************************************************************************)
(* RedisRateLimiter and the Redis server.  A sorted set is the set of its  *)
(* entries [member, score], one entry per member.  The member that the     *)
(* admit script adds is the string now .. '-' .. math.random(1000000),     *)
(* modelled as the pair <<now, random>>.                                    *)
(***************************************************************************)
key_prefix == "ratelimit"

redis_get_key(prefix, user_id, model_id) == prefix \o ":" \o user_id \o ":" \o model_id

RedisKeys == {redis_get_key(key_prefix, u, m) : u \in Users, m \in Models}

Drop(f, key) == [k \in DOMAIN f \ {key} |-> f[k]]

\* a key that does not exist reads as the empty sorted set
ZsetOf(data, key) == IF key \in DOMAIN data THEN data[key] ELSE {}

\* Redis removes a key whose sorted set became empty
Store(data, key, zset) == IF zset = {} THEN Drop(data, key) ELSE Put(data, key, zset)

\* ZREMRANGEBYSCORE key -inf max
ZREMRANGEBYSCORE(zset, max) == {e \in zset : ~(e.score <= max)}

ZCARD(zset) == Cardinality(zset)

\* ZADD key score member: a member already in the set only has its score updated
ZADD(zset, score, member) ==
    {e \in zset : e.member # member} \cup {[member |-> member, score |-> score]}

\* EXPIRE key seconds, at server time now: a timeout that is not positive deletes the key
EXPIRE(db, key, seconds, server_time) ==
    IF key \notin DOMAIN db.data THEN db
    ELSE IF seconds <= 0
         THEN [data |-> Drop(db.data, key), expiry |-> Drop(db.expiry, key)]
         ELSE [db EXCEPT !.expiry = Put(db.expiry, key, server_time + seconds)]

\* the first lines of both scripts: the stale members are removed
RemoveStale(db, key, now, window) ==
    LET window_start == now - window
        zset == ZREMRANGEBYSCORE(ZsetOf(db.data, key), window_start)
    IN  [data |-> Store(db.data, key, zset),
         expiry |-> IF zset = {} THEN Drop(db.expiry, key) ELSE db.expiry]

\* RATE_LIMIT_SCRIPT with KEYS[1] = key, ARGV = now, window, limit; random is what
\* math.random(1000000) returns.  The result is the server after the script, the
\* script's return value and its current_count.
RATE_LIMIT_SCRIPT(db, key, now, window, limit, random, server_time) ==
    LET db1 == RemoveStale(db, key, now, window)
        current_count == ZCARD(ZsetOf(db1.data, key))
    IN  IF current_count >= limit
        THEN [db |-> db1, result |-> 0, current_count |-> current_count]
        ELSE LET zset == ZADD(ZsetOf(db1.data, key), now, <<now, random>>)
                 db2 == [db1 EXCEPT !.data = Put(db1.data, key, zset)]
             IN  [db |-> EXPIRE(db2, key, window, server_time), result |-> 1,
                  current_count |-> current_count]

\* GET_USAGE_SCRIPT with KEYS[1] = key, ARGV = now, window
GET_USAGE_SCRIPT(db, key, now, window) ==
    LET db1 == RemoveStale(db, key, now, window)
    IN  [db |-> db1, result |-> ZCARD(ZsetOf(db1.data, key))]

\* DEL key
DEL(db, key) == [data |-> Drop(db.data, key), expiry |-> Drop(db.expiry, key)]

\* the keys whose time to live has run out at server_time are gone
ExpireKeys(db, server_time) ==
    LET gone == {k \in DOMAIN db.expiry : db.expiry[k] <= server_time}
    IN  [data |-> [k \in DOMAIN db.data \ gone |-> db.data[k]],
         expiry |-> [k \in DOMAIN db.expiry \ gone |-> db.expiry[k]]]

Db == [data |-> redis_data, expiry |-> redis_expiry]

(***************************************************************************)
(* Several RedisRateLimiter instances against one Redis server: a call     *)
(* first samples now on its instance and sends its command; the server     *)
(* runs the commands one at a time, in the order they arrive.              *)
(***************************************************************************)

\* allow / get_usage: key = self._get_key(..); now = time.time(); the evalsha is sent.
\* reset: the delete is sent.
RCall(i) ==
    /\ rpc[i] = "idle"
    /\ calls < MaxCalls
    /\ \E o \in {"allow", "get_usage", "reset"}, u \in Users, m \in Models, l \in Limits :
         /\ (o # "allow") => l = None
         /\ rframe' = [rframe EXCEPT ![i] =
                [op |-> o, user_id |-> u, model_id |-> m, limit |-> l,
                 key |-> redis_get_key(key_prefix, u, m),
                 effective_limit |-> IF o = "allow" THEN effective_limit(l, default_limit)
                                     ELSE 0,
                 current_time |-> IF o = "reset" THEN 0 ELSE clock]]
         /\ rpc' = [rpc EXCEPT ![i] = o]
    /\ calls' = calls + 1
    /\ UNCHANGED <<confVars, clock, request_logs, locks, global_lock, pc, frame, histVars,
                   redis_data, redis_expiry, r_admitted, r_last, seqVars, pairVars, lifeVars>>

\* the server runs RATE_LIMIT_SCRIPT for instance i; allow returns result == 1
RExecAllow(i) ==
    /\ rpc[i] = "allow"
    /\ \E random \in 1..RandomRange :
         LET f == rframe[i]
             before == ZCARD(ZsetOf(redis_data, f.key))
             r == RATE_LIMIT_SCRIPT(Db, f.key, f.current_time, window_seconds,
                                    f.effective_limit, random, clock)
         IN  /\ redis_data' = r.db.data
             /\ redis_expiry' = r.db.expiry
             /\ r_last' = [op |-> "allow", key |-> f.key, now |-> f.current_time,
                           result |-> r.result, current_count |-> r.current_count,
                           after |-> ZCARD(ZsetOf(r.db.data, f.key))]
             /\ limits_used' = [limits_used EXCEPT ![f.key] = @ \cup {f.effective_limit}]
             /\ IF r.result = 1
                THEN /\ r_admitted' = [r_admitted EXCEPT ![f.key] =
                             Append(@, [now |-> f.current_time, at |-> clock])]
                     /\ UNCHANGED denied
                ELSE /\ denied' = [denied EXCEPT ![f.key] = @ + 1]
                     /\ UNCHANGED r_admitted
    /\ rpc' = [rpc EXCEPT ![i] = "idle"]
    /\ rframe' = [rframe EXCEPT ![i] = NoFrame]
    /\ UNCHANGED <<confVars, clock, localVars, admitted, was_reset, first_allow, lin, seqVars,
                   pairVars, lifeVars>>

\* the server runs GET_USAGE_SCRIPT for instance i
RExecUsage(i) ==
    /\ rpc[i] = "get_usage"
    /\ LET f == rframe[i]
           r == GET_USAGE_SCRIPT(Db, f.key, f.current_time, window_seconds)
       IN  /\ redis_data' = r.db.data
           /\ redis_expiry' = r.db.expiry
           /\ r_last' = [op |-> "get_usage", key |-> f.key, now |-> f.current_time,
                         requests_used |-> r.result,
                         requests_remaining |-> requests_remaining(default_limit, r.result),
                         window_seconds |-> window_seconds]
    /\ rpc' = [rpc EXCEPT ![i] = "idle"]
    /\ rframe' = [rframe EXCEPT ![i] = NoFrame]
    /\ UNCHANGED <<confVars, clock, localVars, histVars, r_admitted, seqVars, pairVars, lifeVars>>

\* the server runs the DEL of instance i's reset
RExecDelete(i) ==
    /\ rpc[i] = "reset"
    /\ redis_data' = DEL(Db, rframe[i].key).data
    /\ redis_expiry' = DEL(Db, rframe[i].key).expiry
    /\ r_last' = [op |-> "reset", key |-> rframe[i].key]
    /\ was_reset' = [was_reset EXCEPT ![rframe[i].key] = TRUE]
    /\ rpc' = [rpc EXCEPT ![i] = "idle"]
    /\ rframe' = [rframe EXCEPT ![i] = NoFrame]
    /\ UNCHANGED <<confVars, clock, localVars, admitted, denied, limits_used, first_allow,
                   lin, r_admitted, seqVars, pairVars, lifeVars>>

\* time passes; the server drops the keys whose time to live ran out
RTick ==
    /\ clock < MaxTime
    /\ clock' = clock + 1
    /\ redis_data' = ExpireKeys(Db, clock + 1).data
    /\ redis_expiry' = ExpireKeys(Db, clock + 1).expiry
    /\ UNCHANGED <<confVars, localVars, histVars, rpc, rframe, r_admitted, r_last, seqVars, pairVars, lifeVars>>

\* RedisRateLimiter(default_limit, window_seconds) on every instance
RInit ==
    /\ default_limit \in 1..MaxLimit
    /\ window_seconds = 2
    /\ clock = 0
    /\ Built({"redis"})
    /\ LocalIdle
    /\ RedisIdle
    /\ NoPairs
    /\ HistInit(RedisKeys)

RNext ==
    \/ RTick
    \/ \E i \in Instances :
         \/ RCall(i)
         \/ RExecAllow(i)
         \/ RExecUsage(i)
         \/ RExecDelete(i)

SpecRedis == RInit /\ [][RNext]_vars

(***************************************************************************)
(* Properties of the Redis backend under concurrent instances (SpecRedis). *)
(***************************************************************************)

\* the admissions of key k decided at a time in the window (t - window_seconds, t]
RInWindow(k, t) ==
    {j \in 1..Len(r_admitted[k]) :
        r_admitted[k][j].at > t - window_seconds /\ r_admitted[k][j].at <= t}

\* C3: on a key whose allow calls all had the same limit L and that was never reset,
\* no interval of window_seconds consecutive instants sees more than L script runs
\* return 1, whatever the order of the now-sampling steps and the script runs.
C3_RedisWindowNeverExceedsLimit ==
    \A k \in RedisKeys : \A L \in 0..(MaxLimit + 1) :
        FixedLimit(k, L) => \A t \in Times : Cardinality(RInWindow(k, t)) <= L

\* C4: a script run that returns 1 leaves the key with one member more than the
\* current_count it found.
C4_AdmissionAddsOneMember ==
    (r_last.op = "allow" /\ r_last.result = 1) => r_last.after = r_last.current_count + 1

\* the step is the server running the allow script of some instance
AllowRuns == \E i \in Instances : rpc[i] = "allow" /\ rpc'[i] = "idle"

\* the step gives key k a time to live, or another one than it had
ExpirySet(k) ==
    /\ k \in DOMAIN redis_expiry'
    /\ (k \in DOMAIN redis_expiry => redis_expiry'[k] # redis_expiry[k])

\* the step is the passing of time, and key k is gone by the end of its time to live
ExpiredAway(k) == clock' # clock /\ k \in DOMAIN redis_data /\ k \notin DOMAIN redis_data'

\* the now values of the allow and get_usage calls on key k whose command the server
\* has not run yet
NowInFlight(k) ==
    {rframe[i].current_time :
        i \in {j \in Instances : rpc[j] \in {"allow", "get_usage"} /\ rframe[j].key = k}}

\* C21: a script run that returns 1 leaves its key with a time to live of
\* window_seconds, and nothing else gives a key a time to live; when a key is gone by
\* the end of its time to live every member it held had score <= current time -
\* window_seconds; and the count that a call made now, or a call whose command is on
\* its way, computes for the key is the same with the key gone as with the key kept.
C21_ExpiryRemovesOnlyStaleEntries ==
    /\ [][(AllowRuns /\ r_last'.result = 1) =>
             /\ r_last'.key \in DOMAIN redis_expiry'
             /\ redis_expiry'[r_last'.key] = clock + window_seconds]_vars
    /\ [][\A k \in RedisKeys :
             ExpirySet(k) => (AllowRuns /\ r_last'.result = 1 /\ r_last'.key = k)]_vars
    /\ [][\A k \in RedisKeys :
             ExpiredAway(k) =>
                 \A e \in redis_data[k] : e.score <= clock' - window_seconds]_vars
    /\ [][\A k \in RedisKeys :
             ExpiredAway(k) =>
                 \A now \in NowInFlight(k) \cup {clock'} :
                     GET_USAGE_SCRIPT(Db, k, now, window_seconds).result
                       = GET_USAGE_SCRIPT(Db', k, now, window_seconds).result]_vars

----------------------------------------------------------------------------
(***************************************************************************)
(* One caller, one call at a time, the same call made on a                 *)
(* SlidingWindowRateLimiter and on a RedisRateLimiter that read the same   *)
(* clock (SpecSeq).  With a single caller the lock of a key is always      *)
(* free, so a call of the in-memory backend runs from start to end.        *)
(***************************************************************************)

\* RedisRateLimiter.get_usage: the dict built from the script's count
RedisUsage(count, window, default) ==
    [requests_used |-> count,
     requests_remaining |-> requests_remaining(default, count),
     window_seconds |-> window]

\* self.locks[key]: the key's lock is created when absent
TouchLock(key) == IF key \in DOMAIN locks THEN locks ELSE Put(locks, key, 0)

\* allow(user_id, model_id, limit) on both backends
SAllow ==
    \E u \in SeqUsers, m \in Models, l \in Limits, random \in 1..RandomRange :
        LET key == _get_key(u, m)
            rkey == redis_get_key(key_prefix, u, m)
            limit == effective_limit(l, default_limit)
            a == LocalAllow(request_logs, key, limit, clock, window_seconds)
            r == RATE_LIMIT_SCRIPT(Db, rkey, clock, window_seconds, limit, random, clock)
        IN  /\ request_logs' = a.logs
            /\ locks' = TouchLock(key)
            /\ redis_data' = r.db.data
            /\ redis_expiry' = r.db.expiry
            /\ s_last' = [op |-> "allow", key |-> key, limit |-> l, now |-> clock,
                          hist |-> s_hist[key],
                          before |-> LogOf(request_logs, key),
                          after |-> LogOf(a.logs, key),
                          result |-> a.result,
                          r_before |-> ZsetOf(redis_data, rkey),
                          r_after |-> ZsetOf(r.db.data, rkey),
                          r_result |-> (r.result = 1)]
            /\ s_hist' = [s_hist EXCEPT ![key] =
                   [fresh |-> FALSE,
                    last_admit |-> IF a.result THEN Some(clock) ELSE @.last_admit,
                    r_last_admit |-> IF r.result = 1 THEN Some(clock) ELSE @.r_last_admit,
                    since_reset |-> IF a.result THEN Append(@.since_reset, clock)
                                    ELSE @.since_reset]]
            /\ UNCHANGED <<confVars, clock, global_lock, pc, frame, calls, histVars,
                           rpc, rframe, r_admitted, r_last, pairVars, lifeVars>>

\* get_usage(user_id, model_id) on both backends
SGetUsage ==
    \E u \in SeqUsers, m \in Models :
        LET key == _get_key(u, m)
            rkey == redis_get_key(key_prefix, u, m)
            a == LocalGetUsage(request_logs, key, clock, window_seconds, default_limit)
            r == GET_USAGE_SCRIPT(Db, rkey, clock, window_seconds)
        IN  /\ request_logs' = a.logs
            /\ locks' = TouchLock(key)
            /\ redis_data' = r.db.data
            /\ redis_expiry' = r.db.expiry
            /\ s_last' = [op |-> "get_usage", key |-> key, now |-> clock,
                          hist |-> s_hist[key],
                          before |-> LogOf(request_logs, key),
                          result |-> a.result,
                          r_result |-> RedisUsage(r.result, window_seconds, default_limit)]
            /\ UNCHANGED <<confVars, clock, global_lock, pc, frame, calls, histVars,
                           rpc, rframe, r_admitted, r_last, s_hist, pairVars, lifeVars>>

\* reset(user_id, model_id) on both backends
SReset ==
    \E u \in SeqUsers, m \in Models :
        LET key == _get_key(u, m)
            rkey == redis_get_key(key_prefix, u, m)
        IN  /\ request_logs' = LocalReset(request_logs, key)
            /\ locks' = TouchLock(key)
            /\ redis_data' = DEL(Db, rkey).data
            /\ redis_expiry' = DEL(Db, rkey).expiry
            /\ s_last' = [op |-> "reset", key |-> key]
            /\ s_hist' = [s_hist EXCEPT ![key] = [@ EXCEPT !.fresh = TRUE,
                                                            !.since_reset = <<>>]]
            /\ UNCHANGED <<confVars, clock, global_lock, pc, frame, calls, histVars,
                           rpc, rframe, r_admitted, r_last, pairVars, lifeVars>>

\* time passes; the Redis server drops the keys whose time to live ran out
STick ==
    /\ clock < MaxTime
    /\ clock' = clock + 1
    /\ redis_data' = ExpireKeys(Db, clock + 1).data
    /\ redis_expiry' = ExpireKeys(Db, clock + 1).expiry
    /\ UNCHANGED <<confVars, localVars, histVars, rpc, rframe, r_admitted, r_last, seqVars, pairVars, lifeVars>>

\* both limiters built with the same default_limit and window_seconds
SInit ==
    /\ default_limit \in 1..MaxLimit
    /\ window_seconds \in 1..2
    /\ clock = 0
    /\ Built({"local", "redis"})
    /\ LocalIdle
    /\ RedisIdle
    /\ NoPairs
    /\ HistInit(LocalKeys)

SNext == STick \/ SAllow \/ SGetUsage \/ SReset

SpecSeq == SInit /\ [][SNext]_vars

(***************************************************************************)
(* Properties of single calls, on both backends (SpecSeq).                 *)
(***************************************************************************)

\* the effective limit of the last call, an allow
LastLimit == IF s_last.limit = None THEN default_limit ELSE s_last.limit[1]

\* the last call was the first allow on its key since a reset of the key
AllowAfterReset == s_last.op = "allow" /\ s_last.hist.fresh

\* C5 as stated: after reset on a key, the next allow on that key returns True on
\* both backends, whatever the state before the reset and whatever the limit.
C5_AllowAfterResetIsTrue ==
    AllowAfterReset => (s_last.result /\ s_last.r_result)

\* C5, amended: after reset on a key, the next allow on that key returns True on both
\* backends when its effective limit is at least 1, and False when it is 0 or less.
C5_AllowAfterResetIsTrueIffPositiveLimit ==
    AllowAfterReset =>
        /\ s_last.result = (LastLimit >= 1)
        /\ s_last.r_result = (LastLimit >= 1)

\* an allow admitted right after the reset of a key that was at its limit
C5_Witness ==
    /\ AllowAfterReset
    /\ s_last.before = <<>>
    /\ s_last.hist.last_admit = Some(s_last.now)
    /\ LastLimit = 1
    /\ s_last.result /\ s_last.r_result

\* the last call was an allow made strictly more than window_seconds after the
\* backend last admitted a request on the key
WaitedOut(last_admit) ==
    /\ s_last.op = "allow"
    /\ last_admit # None
    /\ s_last.now - last_admit[1] > window_seconds

\* C6 as stated: an allow made strictly more than window_seconds after the last
\* admitted request on its key returns True.
C6_AllowAfterWindowIsTrue ==
    /\ WaitedOut(s_last.hist.last_admit) => s_last.result
    /\ WaitedOut(s_last.hist.r_last_admit) => s_last.r_result

\* C6, amended: an allow made strictly more than window_seconds after the last
\* admitted request on its key returns True when its effective limit is at least 1.
C6_AllowAfterWindowIsTrueForPositiveLimit ==
    /\ (WaitedOut(s_last.hist.last_admit) /\ LastLimit >= 1) => s_last.result
    /\ (WaitedOut(s_last.hist.r_last_admit) /\ LastLimit >= 1) => s_last.r_result

\* the log still held as many entries as the limit when the call came, and the call
\* is admitted on both backends
C6_Witness ==
    /\ WaitedOut(s_last.hist.last_admit)
    /\ WaitedOut(s_last.hist.r_last_admit)
    /\ LastLimit >= 1
    /\ Len(s_last.before) >= LastLimit
    /\ s_last.result /\ s_last.r_result

\* the last call was a get_usage on a key that admitted k requests since it was last
\* reset (or created), the oldest of them still inside the window
UsageAfterAdmissions(k) ==
    /\ s_last.op = "get_usage"
    /\ Len(s_last.hist.since_reset) = k
    /\ k >= 1 => s_last.now - s_last.hist.since_reset[1] < window_seconds

\* the number of requests admitted on the key of the last call since its last reset
AdmittedSinceReset == IF s_last.op = "get_usage" THEN Len(s_last.hist.since_reset) ELSE 0

\* C8 as stated: after k admitted allow calls with no expiry and no reset, get_usage
\* of the in-memory backend reports requests_used = k and
\* requests_remaining = default_limit - k, with the configured window_seconds.
C8_UsageReportsDefaultMinusK ==
    UsageAfterAdmissions(AdmittedSinceReset) =>
        /\ s_last.result.requests_used = AdmittedSinceReset
        /\ s_last.result.requests_remaining = default_limit - AdmittedSinceReset
        /\ s_last.result.window_seconds = window_seconds

\* C8, amended: after k admitted allow calls with no expiry and no reset, get_usage
\* of the in-memory backend reports requests_used = k and
\* requests_remaining = max(0, default_limit - k), with the configured window_seconds.
C8_UsageReportsClampedRemaining ==
    UsageAfterAdmissions(AdmittedSinceReset) =>
        /\ s_last.result.requests_used = AdmittedSinceReset
        /\ s_last.result.requests_remaining
               = (IF default_limit - AdmittedSinceReset > 0
                  THEN default_limit - AdmittedSinceReset ELSE 0)
        /\ s_last.result.window_seconds = window_seconds

\* get_usage after two admissions under an override above the default limit
C8_Witness ==
    /\ UsageAfterAdmissions(2)
    /\ default_limit = 1
    /\ s_last.result.requests_used = 2
    /\ s_last.result.requests_remaining = 0

\* what the cleanup of an allow at time now leaves of the log it found
Kept(log, now) == SelectSeq(log, LAMBDA ts : ts > now - window_seconds)

C10_NonPositiveLimitStarves ==
    (s_last.op = "allow" /\ LastLimit <= 0) =>
        /\ ~s_last.result
        /\ ~s_last.r_result
        /\ s_last.after = Kept(s_last.before, s_last.now)
        /\ Len(s_last.after) <= Len(s_last.before)
        /\ s_last.r_after \subseteq s_last.r_before

\* an allow with limit <= 0 denied on a key that is empty because it was just reset
C10_Witness ==
    /\ AllowAfterReset
    /\ LastLimit <= 0
    /\ s_last.hist.last_admit # None
    /\ ~s_last.result /\ ~s_last.r_result
    /\ s_last.after = <<>>

\* C11: at every step of a run of one caller, the call made on both backends at the
\* same clock reading returns the same allow boolean and the same requests_used,
\* requests_remaining and window_seconds.
C11_BackendsAgree ==
    s_last.op \in {"allow", "get_usage"} => s_last.result = s_last.r_result

\* the lists of timestamps, in any order, that the cleanup is checked on
AnyLogs == UNION {[1..n -> Times] : n \in 0..(MaxLimit + 1)}

\* how many times v occurs in seq
Occurrences(seq, v) == Cardinality({i \in DOMAIN seq : seq[i] = v})

\* the entries of a sorted set that are live at time now
Live(zset, now) == {e \in zset : e.score > now - window_seconds}

\* C20: the cleanup at time now removes every timestamp ts <= now - window_seconds and
\* keeps every ts > now - window_seconds, wherever it sits in the list (in the
\* sorted set, the entries by score); so a get_usage counts, and an allow compares
\* with its limit, exactly the entries admitted since the last reset at a time t with
\* t <= now < t + window_seconds, and between two calls no live entry is lost.
\* (A step that leaves the clock as it is is the call that s_last' records; a step
\* that changes it is the passing of time.)
C20_CleanupKeepsExactlyTheWindow ==
    /\ [](s_last.op = "none" =>
            \A log \in AnyLogs, now \in Times, v \in Times :
                Occurrences(_cleanup_old_entries(log, now, window_seconds), v) =
                    (IF v > now - window_seconds THEN Occurrences(log, v) ELSE 0))
    /\ [](s_last.op = "get_usage" =>
            s_last.result.requests_used = Len(Kept(s_last.hist.since_reset, s_last.now)))
    /\ [](s_last.op = "allow" =>
            s_last.result = (Len(Kept(s_last.hist.since_reset, s_last.now)) < LastLimit))
    /\ [][(clock' = clock /\ s_last'.op \in {"allow", "get_usage"}) =>
            LET key == s_last'.key
                rkey == key_prefix \o ":" \o key
                live == Live(ZsetOf(redis_data, rkey), clock)
                zset == ZsetOf(redis_data', rkey)
            IN  /\ live \subseteq zset
                /\ \A e \in zset : e \in live \/ e.score = clock
                /\ s_last'.op = "get_usage" =>
                       /\ zset = live
                       /\ s_last'.r_result.requests_used = Cardinality(live)
                       /\ LogOf(request_logs', key) = Kept(LogOf(request_logs, key), clock)
                /\ s_last'.op = "allow" =>
                       /\ s_last'.r_result =
                              (Cardinality(live) < effective_limit(s_last'.limit, default_limit))
                       /\ s_last'.r_result => \E e \in zset : e.score = clock]_vars
    /\ [][clock' # clock =>
            \A k \in DOMAIN redis_data :
                Live(redis_data[k], clock') \subseteq ZsetOf(redis_data', k)]_vars

\* a get_usage at the instant an entry reaches the age window_seconds: it is not
\* counted, and a younger entry admitted after it is
C20_Witness ==
    /\ s_last.op = "get_usage"
    /\ \E i \in DOMAIN s_last.hist.since_reset :
           s_last.hist.since_reset[i] = s_last.now - window_seconds
    /\ \E i \in DOMAIN s_last.hist.since_reset :
           s_last.hist.since_reset[i] > s_last.now - window_seconds
    /\ s_last.result.requests_used = 1
    /\ s_last.r_result.requests_used = 1

----------------------------------------------------------------------------
(***************************************************************************)
(* Two runs of the in-memory backend that differ only in the calls made on *)
(* a first (user_id, model_id) pair; the calls on a second, different pair *)
(* are the same in both, at the same clock readings (SpecPairs).  The      *)
(* first run is request_logs and locks, the second is run2; the first      *)
(* pair's calls are made in the first run only.                            *)
(***************************************************************************)
PairUserIds == {"a", "a:b"}
PairModelIds == {"c", "b:c"}
PairIds == PairUserIds \X PairModelIds

\* a call on the first pair, in the first run
PFirst ==
    \E o \in {"allow", "get_usage", "reset"}, l \in Limits :
        LET key == _get_key(pairs[1][1], pairs[1][2]) IN
        /\ (o # "allow") => l = None
        /\ request_logs' =
               CASE o = "allow" ->
                        LocalAllow(request_logs, key, effective_limit(l, default_limit),
                                   clock, window_seconds).logs
                 [] o = "get_usage" ->
                        LocalGetUsage(request_logs, key, clock, window_seconds,
                                      default_limit).logs
                 [] o = "reset" -> LocalReset(request_logs, key)
        /\ locks' = TouchLock(key)
        /\ UNCHANGED <<confVars, clock, global_lock, pc, frame, calls, histVars, redisVars,
                       seqVars, pairVars, lifeVars>>

\* the same call on the second pair, in both runs
PSecond ==
    \E o \in {"allow", "get_usage", "reset"}, l \in Limits :
        LET key == _get_key(pairs[2][1], pairs[2][2])
            limit == effective_limit(l, default_limit)
            a1 == LocalAllow(request_logs, key, limit, clock, window_seconds)
            a2 == LocalAllow(run2.request_logs, key, limit, clock, window_seconds)
            u1 == LocalGetUsage(request_logs, key, clock, window_seconds, default_limit)
            u2 == LocalGetUsage(run2.request_logs, key, clock, window_seconds, default_limit)
            lock2 == IF key \in DOMAIN run2.locks THEN run2.locks
                     ELSE Put(run2.locks, key, 0)
        IN
        /\ (o # "allow") => l = None
        /\ locks' = TouchLock(key)
        /\ CASE o = "allow" ->
                    /\ request_logs' = a1.logs
                    /\ run2' = [request_logs |-> a2.logs, locks |-> lock2]
                    /\ p_last' = [op |-> o, result1 |-> a1.result, result2 |-> a2.result]
             [] o = "get_usage" ->
                    /\ request_logs' = u1.logs
                    /\ run2' = [request_logs |-> u2.logs, locks |-> lock2]
                    /\ p_last' = [op |-> o, result1 |-> u1.result, result2 |-> u2.result]
             [] o = "reset" ->
                    /\ request_logs' = LocalReset(request_logs, key)
                    /\ run2' = [request_logs |-> LocalReset(run2.request_logs, key),
                                locks |-> lock2]
                    /\ p_last' = [op |-> o, result1 |-> None, result2 |-> None]
        /\ UNCHANGED <<confVars, clock, global_lock, pc, frame, calls, histVars, redisVars,
                       seqVars, pairs, lifeVars>>

\* time passes, in both runs
PTick ==
    /\ clock < MaxTime
    /\ clock' = clock + 1
    /\ UNCHANGED <<confVars, localVars, histVars, redisVars, seqVars, pairVars, lifeVars>>

\* two limiters built alike, and two different pairs
PInit ==
    /\ default_limit \in 1..MaxLimit
    /\ window_seconds = 2
    /\ clock = 0
    /\ Built({"local"})
    /\ LocalIdle
    /\ RedisIdle
    /\ HistInit(LocalKeys)
    /\ pairs \in {pq \in PairIds \X PairIds : pq[1] # pq[2]}
    /\ run2 = [request_logs |-> <<>>, locks |-> <<>>]

PNext == PTick \/ PFirst \/ PSecond

SpecPairs == PInit /\ [][PNext]_vars

\* C7: whatever calls the first run makes on the first pair, every allow and get_usage
\* on the second pair returns in it what it returns in the run without them.
C7_PairsDoNotInterfere ==
    p_last.op \in {"allow", "get_usage"} => p_last.result1 = p_last.result2

----------------------------------------------------------------------------
(***************************************************************************)
(* The life of one limiter, from its construction on: one caller, and a    *)
(* Redis server that can stop answering and can lose its script cache      *)
(* (SCRIPT FLUSH, or a restart) (SpecLife).  An exception that a call      *)
(* raises is recorded in l_last.raised; "none" means the call returned,    *)
(* and l_last.result is then Some(what it returned).                       *)
(***************************************************************************)

\* SlidingWindowRateLimiter.__init__: the arguments are stored as they come
LocalConstruct ==
    /\ built = {}
    /\ \E d \in (-1)..MaxLimit, w \in (-1)..2 :
         /\ default_limit' = d
         /\ window_seconds' = w
    /\ request_logs' = <<>>
    /\ locks' = <<>>
    /\ global_lock' = 0
    /\ built' = {"local"}
    /\ l_last' = [op |-> "__init__", backend |-> "local", first |-> "none",
                  attempts |-> 0, raised |-> "none", result |-> None]
    /\ UNCHANGED <<clock, pc, frame, calls, histVars, redisVars, seqVars, pairVars,
                   script_cache, connected>>

\* RedisRateLimiter.__init__: the arguments are stored as they come, then the two
\* script_load calls; a server that does not answer makes script_load raise
RedisConstruct ==
    /\ built = {}
    /\ IF connected
       THEN /\ \E d \in (-1)..MaxLimit, w \in (-1)..2 :
                 /\ default_limit' = d
                 /\ window_seconds' = w
            /\ script_cache' = script_cache \cup Scripts
            /\ built' = {"redis"}
            /\ l_last' = [op |-> "__init__", backend |-> "redis", first |-> "none",
                          attempts |-> 0, raised |-> "none", result |-> None]
       ELSE /\ l_last' = [op |-> "__init__", backend |-> "redis", first |-> "none",
                          attempts |-> 0, raised |-> "ConnectionError", result |-> None]
            /\ UNCHANGED <<confVars, script_cache, built>>
    /\ UNCHANGED <<clock, localVars, histVars, redisVars, seqVars, pairVars, connected>>

\* what self.redis_client.evalsha(sha, ...) raises; "none": the server runs the script
EvalshaRaises(sha) ==
    IF ~connected THEN "ConnectionError"
    ELSE IF sha \notin script_cache THEN "NoScriptError"
    ELSE "none"

\* what self.redis_client.delete(key) raises
DeleteRaises == IF ~connected THEN "ConnectionError" ELSE "none"

\* allow(user_id, model_id, limit) on the limiter that was constructed.  The Redis
\* limiter makes one evalsha call; what that call raises, the caller gets.
LifeAllow ==
    /\ built # {}
    /\ \E u \in SeqUsers, m \in Models, l \in Limits, random \in 1..RandomRange :
        LET key == _get_key(u, m)
            rkey == redis_get_key(key_prefix, u, m)
            limit == effective_limit(l, default_limit)
            a == LocalAllow(request_logs, key, limit, clock, window_seconds)
            first == EvalshaRaises("rate_limit_sha")
            r == RATE_LIMIT_SCRIPT(Db, rkey, clock, window_seconds, limit, random, clock)
        IN  IF "local" \in built
            THEN /\ request_logs' = a.logs
                 /\ locks' = TouchLock(key)
                 /\ l_last' = [op |-> "allow", backend |-> "local", first |-> "none",
                               attempts |-> 0, raised |-> "none", result |-> Some(a.result)]
                 /\ UNCHANGED <<redis_data, redis_expiry>>
            ELSE /\ redis_data' = (IF first = "none" THEN r.db.data ELSE redis_data)
                 /\ redis_expiry' = (IF first = "none" THEN r.db.expiry ELSE redis_expiry)
                 /\ l_last' = [op |-> "allow", backend |-> "redis", first |-> first,
                               attempts |-> 1, raised |-> first,
                               result |-> IF first = "none" THEN Some(r.result = 1) ELSE None]
                 /\ UNCHANGED <<request_logs, locks>>
    /\ UNCHANGED <<confVars, clock, global_lock, pc, frame, calls, histVars, rpc, rframe,
                   r_admitted, r_last, seqVars, pairVars, built, script_cache, connected>>

\* get_usage(user_id, model_id) on the limiter that was constructed
LifeGetUsage ==
    /\ built # {}
    /\ \E u \in SeqUsers, m \in Models :
        LET key == _get_key(u, m)
            rkey == redis_get_key(key_prefix, u, m)
            a == LocalGetUsage(request_logs, key, clock, window_seconds, default_limit)
            first == EvalshaRaises("get_usage_sha")
            r == GET_USAGE_SCRIPT(Db, rkey, clock, window_seconds)
        IN  IF "local" \in built
            THEN /\ request_logs' = a.logs
                 /\ locks' = TouchLock(key)
                 /\ l_last' = [op |-> "get_usage", backend |-> "local", first |-> "none",
                               attempts |-> 0, raised |-> "none", result |-> Some(a.result)]
                 /\ UNCHANGED <<redis_data, redis_expiry>>
            ELSE /\ redis_data' = (IF first = "none" THEN r.db.data ELSE redis_data)
                 /\ redis_expiry' = (IF first = "none" THEN r.db.expiry ELSE redis_expiry)
                 /\ l_last' = [op |-> "get_usage", backend |-> "redis", first |-> first,
                               attempts |-> 1, raised |-> first,
                               result |-> IF first = "none"
                                          THEN Some(RedisUsage(r.result, window_seconds,
                                                               default_limit))
                                          ELSE None]
                 /\ UNCHANGED <<request_logs, locks>>
    /\ UNCHANGED <<confVars, clock, global_lock, pc, frame, calls, histVars, rpc, rframe,
                   r_admitted, r_last, seqVars, pairVars, built, script_cache, connected>>

\* reset(user_id, model_id) on the limiter that was constructed
LifeReset ==
    /\ built # {}
    /\ \E u \in SeqUsers, m \in Models :
        LET key == _get_key(u, m)
            rkey == redis_get_key(key_prefix, u, m)
        IN  IF "local" \in built
            THEN /\ request_logs' = LocalReset(request_logs, key)
                 /\ locks' = TouchLock(key)
                 /\ l_last' = [op |-> "reset", backend |-> "local", first |-> "none",
                               attempts |-> 0, raised |-> "none", result |-> None]
                 /\ UNCHANGED <<redis_data, redis_expiry>>
            ELSE /\ redis_data' = (IF connected THEN DEL(Db, rkey).data ELSE redis_data)
                 /\ redis_expiry' = (IF connected THEN DEL(Db, rkey).expiry
                                     ELSE redis_expiry)
                 /\ l_last' = [op |-> "reset", backend |-> "redis", first |-> DeleteRaises,
                               attempts |-> 1, raised |-> DeleteRaises, result |-> None]
                 /\ UNCHANGED <<request_logs, locks>>
    /\ UNCHANGED <<confVars, clock, global_lock, pc, frame, calls, histVars, rpc, rframe,
                   r_admitted, r_last, seqVars, pairVars, built, script_cache, connected>>

\* the Redis server loses its script cache; the handles of the limiter stay as they are
ScriptFlush ==
    /\ script_cache # {}
    /\ script_cache' = {}
    /\ UNCHANGED <<confVars, clock, localVars, histVars, redisVars, seqVars, pairVars,
                   built, connected, l_last>>

\* the Redis server stops answering, or answers again
Disconnect ==
    /\ connected' = ~connected
    /\ UNCHANGED <<confVars, clock, localVars, histVars, redisVars, seqVars, pairVars,
                   built, script_cache, l_last>>

\* time passes; the Redis server drops the keys whose time to live ran out
LifeTick ==
    /\ clock < MaxTime
    /\ clock' = clock + 1
    /\ redis_data' = ExpireKeys(Db, clock + 1).data
    /\ redis_expiry' = ExpireKeys(Db, clock + 1).expiry
    /\ UNCHANGED <<confVars, localVars, histVars, rpc, rframe, r_admitted, r_last, seqVars,
                   pairVars, lifeVars>>

\* no limiter yet: default_limit and window_seconds are not set (0 stands for that)
LifeInit ==
    /\ default_limit = 0
    /\ window_seconds = 0
    /\ clock = 0
    /\ LocalIdle
    /\ RedisIdle
    /\ NoPairs
    /\ HistInit(LocalKeys)
    /\ built = {}
    /\ script_cache = {}
    /\ connected = TRUE
    /\ l_last = [op |-> "none"]

LifeNext ==
    \/ LocalConstruct
    \/ RedisConstruct
    \/ LifeAllow
    \/ LifeGetUsage
    \/ LifeReset
    \/ ScriptFlush
    \/ Disconnect
    \/ LifeTick

SpecLife == LifeInit /\ [][LifeNext]_vars

(***************************************************************************)
(* Properties of the life of a limiter (SpecLife).                         *)
(***************************************************************************)

\* C12: when the evalsha of an allow or get_usage of the Redis limiter fails because
\* the server does not know the script, the limiter loads the scripts again and makes
\* the call a second time, once; when it fails for another reason, the call raises
\* that error and returns no result.
C12_UnknownScriptIsReloadedAndRetried ==
    (l_last.op \in {"allow", "get_usage"} /\ l_last.backend = "redis") =>
        /\ l_last.first = "NoScriptError" =>
              /\ l_last.attempts = 2
              /\ Scripts \subseteq script_cache
        /\ l_last.first = "ConnectionError" =>
              /\ l_last.attempts = 1
              /\ l_last.raised = "ConnectionError"
              /\ l_last.result = None

\* C13: a limiter of either backend is constructed only with default_limit > 0 and
\* window_seconds > 0 (any other construction raises), so allow, get_usage and reset
\* never run with one of them <= 0.
C13_ConstructedWithPositiveConfiguration ==
    /\ built # {} => (default_limit > 0 /\ window_seconds > 0)
    /\ l_last.op \in {"allow", "get_usage", "reset"} =>
           (default_limit > 0 /\ window_seconds > 0)

----------------------------------------------------------------------------
(***************************************************************************)
(* One caller working on several keys of one limiter, which is either a    *)
(* SlidingWindowRateLimiter or a RedisRateLimiter (SpecKeys).  s_last      *)
(* keeps the last call and what it returned: Some(the value), or None for  *)
(* a reset, with the number of entries that the reset cleared.             *)
(***************************************************************************)

\* allow(user_id, model_id, limit); random is what math.random returns in the script
KAllow(user_id, model_id, limit, random) ==
    LET key == _get_key(user_id, model_id)
        rkey == redis_get_key(key_prefix, user_id, model_id)
        a == LocalAllow(request_logs, key, effective_limit(limit, default_limit), clock,
                        window_seconds)
        r == RATE_LIMIT_SCRIPT(Db, rkey, clock, window_seconds,
                               effective_limit(limit, default_limit), random, clock)
    IN  /\ IF "local" \in built
           THEN /\ request_logs' = a.logs
                /\ locks' = TouchLock(key)
                /\ s_last' = [op |-> "allow", key |-> key, result |-> Some(a.result)]
                /\ UNCHANGED <<redis_data, redis_expiry>>
           ELSE /\ redis_data' = r.db.data
                /\ redis_expiry' = r.db.expiry
                /\ s_last' = [op |-> "allow", key |-> rkey, result |-> Some(r.result = 1)]
                /\ UNCHANGED <<request_logs, locks>>
        /\ UNCHANGED <<confVars, clock, global_lock, pc, frame, calls, histVars, rpc, rframe,
                       r_admitted, r_last, s_hist, pairVars, lifeVars>>

\* get_usage(user_id, model_id)
KGetUsage(user_id, model_id) ==
    LET key == _get_key(user_id, model_id)
        rkey == redis_get_key(key_prefix, user_id, model_id)
        a == LocalGetUsage(request_logs, key, clock, window_seconds, default_limit)
        r == GET_USAGE_SCRIPT(Db, rkey, clock, window_seconds)
    IN  /\ IF "local" \in built
           THEN /\ request_logs' = a.logs
                /\ locks' = TouchLock(key)
                /\ s_last' = [op |-> "get_usage", key |-> key, result |-> Some(a.result)]
                /\ UNCHANGED <<redis_data, redis_expiry>>
           ELSE /\ redis_data' = r.db.data
                /\ redis_expiry' = r.db.expiry
                /\ s_last' = [op |-> "get_usage", key |-> rkey,
                              result |-> Some(RedisUsage(r.result, window_seconds,
                                                         default_limit))]
                /\ UNCHANGED <<request_logs, locks>>
        /\ UNCHANGED <<confVars, clock, global_lock, pc, frame, calls, histVars, rpc, rframe,
                       r_admitted, r_last, s_hist, pairVars, lifeVars>>

\* reset(user_id, model_id)
KReset(user_id, model_id) ==
    LET key == _get_key(user_id, model_id)
        rkey == redis_get_key(key_prefix, user_id, model_id)
    IN  /\ IF "local" \in built
           THEN /\ request_logs' = LocalReset(request_logs, key)
                /\ locks' = TouchLock(key)
                /\ s_last' = [op |-> "reset", key |-> key, result |-> None,
                              cleared |-> Len(LogOf(request_logs, key))]
                /\ UNCHANGED <<redis_data, redis_expiry>>
           ELSE /\ redis_data' = DEL(Db, rkey).data
                /\ redis_expiry' = DEL(Db, rkey).expiry
                /\ s_last' = [op |-> "reset", key |-> rkey, result |-> None,
                              cleared |-> ZCARD(ZsetOf(redis_data, rkey))]
                /\ UNCHANGED <<request_logs, locks>>
        /\ UNCHANGED <<confVars, clock, global_lock, pc, frame, calls, histVars, rpc, rframe,
                       r_admitted, r_last, s_hist, pairVars, lifeVars>>

\* time passes; the Redis server drops the keys whose time to live ran out
KTick ==
    /\ clock < MaxTime
    /\ clock' = clock + 1
    /\ redis_data' = ExpireKeys(Db, clock + 1).data
    /\ redis_expiry' = ExpireKeys(Db, clock + 1).expiry
    /\ UNCHANGED <<confVars, localVars, histVars, rpc, rframe, r_admitted, r_last, seqVars,
                   pairVars, lifeVars>>

\* one limiter, of either backend
KInit ==
    /\ default_limit \in 1..MaxLimit
    /\ window_seconds \in 1..2
    /\ clock = 0
    /\ \E backend \in {"local", "redis"} : Built({backend})
    /\ LocalIdle
    /\ RedisIdle
    /\ NoPairs
    /\ HistInit(LocalKeys)

KNext ==
    \/ KTick
    \/ \E u \in Users, m \in Models :
         \/ \E l \in ThreadLimits, random \in 1..RandomRange : KAllow(u, m, l, random)
         \/ KGetUsage(u, m)
         \/ KReset(u, m)

SpecKeys == KInit /\ [][KNext]_vars

(***************************************************************************)
(* Properties of the calls of one caller on several keys (SpecKeys).       *)
(***************************************************************************)

\* the requests_used that get_usage reports for key on logs at time now
LocalUsed(logs, key, now) ==
    LocalGetUsage(logs, key, now, window_seconds, default_limit).result.requests_used

\* the count that the usage script returns for key on the server (data, expiry) at now
RedisUsed(data, expiry, key, now) ==
    GET_USAGE_SCRIPT([data |-> data, expiry |-> expiry], key, now, window_seconds).result

\* every key other than key and rkey is in both backends what it was
OtherKeysUnchanged(key, rkey) ==
    /\ \A k \in LocalKeys \ {key} :
           /\ (k \in DOMAIN request_logs') = (k \in DOMAIN request_logs)
           /\ LogOf(request_logs', k) = LogOf(request_logs, k)
    /\ \A k \in RedisKeys \ {rkey} :
           /\ ZsetOf(redis_data', k) = ZsetOf(redis_data, k)
           /\ (k \in DOMAIN redis_expiry') = (k \in DOMAIN redis_expiry)
           /\ k \in DOMAIN redis_expiry => redis_expiry'[k] = redis_expiry[k]

\* the step is the call op(user_id, model_id): a step of SpecKeys that leaves the clock
\* as it is is the call that s_last' records, on the key of the backend that is built
StepOn(op, user_id, model_id) ==
    /\ clock' = clock
    /\ s_last'.op = op
    /\ s_last'.key \in {_get_key(user_id, model_id),
                        redis_get_key(key_prefix, user_id, model_id)}

\* C14: a reset leaves its key without any timestamp, whatever it held and whether or
\* not it was ever used, so that a get_usage made right after it reports
\* requests_used = 0; it changes no other key; and a reset that follows a reset of
\* the same key changes nothing.
C14_ResetClearsItsKeyOnly ==
    [][\A u \in Users, m \in Models :
         StepOn("reset", u, m) =>
             LET key == _get_key(u, m)
                 rkey == redis_get_key(key_prefix, u, m)
             IN  /\ LogOf(request_logs', key) = <<>>
                 /\ ZsetOf(redis_data', rkey) = {}
                 /\ rkey \notin DOMAIN redis_expiry'
                 /\ LocalUsed(request_logs', key, clock') = 0
                 /\ RedisUsed(redis_data', redis_expiry', rkey, clock') = 0
                 /\ OtherKeysUnchanged(key, rkey)
                 /\ (s_last.op = "reset" /\ s_last.key \in {key, rkey}) =>
                        /\ request_logs' = request_logs
                        /\ locks' = locks
                        /\ redis_data' = redis_data
                        /\ redis_expiry' = redis_expiry]_vars

\* a reset cleared a key that held an entry, while another key holds one
C14_Witness ==
    /\ s_last.op = "reset"
    /\ s_last.cleared >= 1
    /\ \/ \E k \in LocalKeys \ {s_last.key} : LogOf(request_logs, k) # <<>>
       \/ \E k \in RedisKeys \ {s_last.key} : ZsetOf(redis_data, k) # {}

\* C18: an allow that returns False leaves its key with exactly the timestamps that the
\* cleanup at that instant keeps of those it held, and adds none; it changes no other
\* key; on Redis it does not set the key's expiry; and a get_usage made right after
\* it reports the requests_used that one made right before it reports.
C18_DeniedAllowRecordsNothing ==
    [][\A u \in Users, m \in Models :
         (StepOn("allow", u, m) /\ s_last'.result = Some(FALSE)) =>
             LET key == _get_key(u, m)
                 rkey == redis_get_key(key_prefix, u, m)
             IN  /\ LogOf(request_logs', key) = Kept(LogOf(request_logs, key), clock)
                 /\ ZsetOf(redis_data', rkey) =
                        {e \in ZsetOf(redis_data, rkey) : e.score > clock - window_seconds}
                 /\ rkey \in DOMAIN redis_expiry' =>
                        /\ rkey \in DOMAIN redis_expiry
                        /\ redis_expiry'[rkey] = redis_expiry[rkey]
                 /\ OtherKeysUnchanged(key, rkey)
                 /\ LocalUsed(request_logs', key, clock') = LocalUsed(request_logs, key, clock)
                 /\ RedisUsed(redis_data', redis_expiry', rkey, clock') =
                        RedisUsed(redis_data, redis_expiry, rkey, clock)]_vars

\* an allow was denied by the Redis limiter on a key that holds a member and has an
\* expiry, while another key holds a member
C18_Witness ==
    /\ s_last.op = "allow"
    /\ s_last.result = Some(FALSE)
    /\ s_last.key \in DOMAIN redis_data
    /\ s_last.key \in DOMAIN redis_expiry
    /\ redis_expiry[s_last.key] < clock + window_seconds
    /\ \E k \in RedisKeys \ {s_last.key} : ZsetOf(redis_data, k) # {}

\* an allow was denied by the in-memory limiter on a key that holds a timestamp,
\* while another key holds one
C18_WitnessLocal ==
    /\ s_last.op = "allow"
    /\ s_last.result = Some(FALSE)
    /\ LogOf(request_logs, s_last.key) # <<>>
    /\ \E k \in LocalKeys \ {s_last.key} : LogOf(request_logs, k) # <<>>

----------------------------------------------------------------------------
(***************************************************************************)
(* Two runs of RedisRateLimiter instances against a Redis server, that     *)
(* differ only in get_usage calls that the first run makes in addition:    *)
(* the other calls are the same in both, sample the same now and reach the *)
(* server in the same order, with the same math.random draws (SpecUsage).  *)
(* The server of the first run is redis_data and redis_expiry, that of the *)
(* second is run2.                                                         *)
(***************************************************************************)
Db2 == [data |-> run2.data, expiry |-> run2.expiry]

\* the server runs the command of instance i, in both runs
UExec(i) ==
    /\ rpc[i] # "idle"
    /\ LET f == rframe[i] IN
       \E random \in 1..RandomRange :
         LET a1 == RATE_LIMIT_SCRIPT(Db, f.key, f.current_time, window_seconds,
                                     f.effective_limit, random, clock)
             a2 == RATE_LIMIT_SCRIPT(Db2, f.key, f.current_time, window_seconds,
                                     f.effective_limit, random, clock)
             u1 == GET_USAGE_SCRIPT(Db, f.key, f.current_time, window_seconds)
             u2 == GET_USAGE_SCRIPT(Db2, f.key, f.current_time, window_seconds)
         IN  CASE rpc[i] = "allow" ->
                    /\ redis_data' = a1.db.data
                    /\ redis_expiry' = a1.db.expiry
                    /\ run2' = a2.db
                    /\ p_last' = [op |-> "allow", now |-> f.current_time,
                                  result1 |-> Some(a1.result = 1),
                                  result2 |-> Some(a2.result = 1)]
               [] rpc[i] = "get_usage" ->
                    /\ redis_data' = u1.db.data
                    /\ redis_expiry' = u1.db.expiry
                    /\ run2' = u2.db
                    /\ p_last' = [op |-> "get_usage", now |-> f.current_time,
                                  result1 |-> Some(u1.result), result2 |-> Some(u2.result)]
               [] rpc[i] = "reset" ->
                    /\ redis_data' = DEL(Db, f.key).data
                    /\ redis_expiry' = DEL(Db, f.key).expiry
                    /\ run2' = DEL(Db2, f.key)
                    /\ p_last' = [op |-> "reset", now |-> clock, result1 |-> None,
                                  result2 |-> None]
    /\ rpc' = [rpc EXCEPT ![i] = "idle"]
    /\ rframe' = [rframe EXCEPT ![i] = NoFrame]
    /\ UNCHANGED <<confVars, clock, localVars, histVars, r_admitted, r_last, seqVars, pairs,
                   lifeVars>>

\* a get_usage that only the first run makes: it sampled now, and its script runs
UExtra ==
    /\ \E u \in Users, m \in Models, now \in 0..clock :
         LET r == GET_USAGE_SCRIPT(Db, redis_get_key(key_prefix, u, m), now, window_seconds)
         IN  /\ redis_data' = r.db.data
             /\ redis_expiry' = r.db.expiry
    /\ UNCHANGED <<confVars, clock, localVars, histVars, rpc, rframe, r_admitted, r_last,
                   seqVars, pairVars, lifeVars>>

\* time passes; the server drops the keys whose time to live ran out, in both runs
UTick ==
    /\ clock < MaxTime
    /\ clock' = clock + 1
    /\ redis_data' = ExpireKeys(Db, clock + 1).data
    /\ redis_expiry' = ExpireKeys(Db, clock + 1).expiry
    /\ run2' = ExpireKeys(Db2, clock + 1)
    /\ UNCHANGED <<confVars, localVars, histVars, rpc, rframe, r_admitted, r_last, seqVars,
                   pairs, p_last, lifeVars>>

\* two empty servers and instances built alike
UInit ==
    /\ default_limit \in 1..MaxLimit
    /\ window_seconds = 2
    /\ clock = 0
    /\ Built({"redis"})
    /\ LocalIdle
    /\ RedisIdle
    /\ HistInit(RedisKeys)
    /\ pairs = <<>>
    /\ run2 = [data |-> <<>>, expiry |-> <<>>]

UNext ==
    \/ UTick
    \/ UExtra
    \/ \E i \in Instances :
         \/ RCall(i)
         \/ UExec(i)

SpecUsage == UInit /\ [][UNext]_vars

\* C19: whatever get_usage calls the first run makes in addition, every allow and every
\* other get_usage returns in it what it returns in the run without them.
C19_ExtraUsageChangesNoResult ==
    p_last.op \in {"allow", "get_usage"} => p_last.result1 = p_last.result2

====
